---- MODULE Spec2Model ----
(***************************************************************************)
(* Model of the resume-customisation backend: the e-mail OTP login         *)
(* (routes/auth), the JWT middleware and the per-user blob handlers        *)
(* (routes/resume, routes/ai).                                             *)
(*                                                                         *)
(* Strings are sequences of one-character strings.  Time is Date.now() in  *)
(* milliseconds.  uuidv4() is a fresh value of its call site's pool.       *)
(* Node runs one handler at a time: a handler is atomic up to its next     *)
(* await, so every action below is the code between two awaits.            *)
(***************************************************************************)
EXTENDS Integers, Sequences, FiniteSets, TLC

\* ------------------------------------------------------------------ bounds
\* OTP requests served, with the clock running
MaxOtps == 1
\* OTP requests served, with verify-otp requests racing
MaxRaceOtps == 2
\* clock steps
MaxTicks == 2
\* blobs written (uploads and customised resumes)
MaxResumes == 2
\* Math.random() is modelled as n / RandomDenominator, 0 <= n < RandomDenominator
RandomDenominator == 1000

\* --------------------------------------------------------------- constants
OtpTtlMs == 10 * 60 * 1000
SessionTtlS == 7 * 24 * 60 * 60
OtpBase == 100000
MaxFileSize == 10 * 1024 * 1024
MinJobDescription == 50
OtpSpan == 900000
\* the clock stops here (TLC's integers are 32 bits wide)
Horizon == 2 * SessionTtlS * 1000

\* ----------------------------------------------------------------- strings
Digits == {"0", "1", "2", "3", "4", "5", "6", "7", "8", "9"}
LowerLetters == {"a", "b", "c", "o"}
UpperToLower == ("A" :> "a") @@ ("B" :> "b") @@ ("C" :> "c") @@ ("O" :> "o")
UpperLetters == DOMAIN UpperToLower
Letters == LowerLetters \cup UpperLetters

ToLowerCase(s) ==
    [i \in 1..Len(s) |-> IF s[i] \in UpperLetters THEN UpperToLower[s[i]] ELSE s[i]]

Positions(s, c) == {i \in 1..Len(s) : s[i] = c}

\* s.startsWith(p)
StartsWith(s, p) == Len(p) <= Len(s) /\ SubSeq(s, 1, Len(p)) = p

\* s.includes(sub)
Includes(s, sub) == \E i \in 1..(Len(s) - Len(sub) + 1) : SubSeq(s, i, i + Len(sub) - 1) = sub

\* s.split(c) for a one-character separator c
RECURSIVE Split(_, _)
Split(s, c) ==
    IF Positions(s, c) = {} THEN <<s>>
    ELSE LET i == CHOOSE p \in Positions(s, c) : \A q \in Positions(s, c) : p <= q
         IN  <<SubSeq(s, 1, i - 1)>> \o Split(SubSeq(s, i + 1, Len(s)), c)

\* parts.join(c)
RECURSIVE Join(_, _)
Join(parts, c) ==
    IF Len(parts) = 0 THEN <<>>
    ELSE IF Len(parts) = 1 THEN parts[1]
    ELSE parts[1] \o <<c>> \o Join(Tail(parts), c)

\* String(n) for a natural number n
RECURSIVE NatToString(_)
NatToString(n) ==
    IF n < 10 THEN <<CHOOSE d \in Digits : d = ToString(n)>>
    ELSE Append(NatToString(n \div 10), CHOOSE d \in Digits : d = ToString(n % 10))

\* ------------------------------------------------------ express-validator
\* isFQDN (require_tld): at least two labels, none empty, letters/digits only,
\* the last one alphabetic and at least two characters long.
IsFQDN(d) ==
    LET dots == Positions(d, ".")
        last == IF dots = {} THEN 0 ELSE CHOOSE i \in dots : \A j \in dots : j <= i
    IN  /\ dots # {}
        /\ 1 \notin dots
        /\ Len(d) \notin dots
        /\ \A i \in dots : i + 1 \notin dots
        /\ \A i \in 1..Len(d) : d[i] \in Letters \cup Digits \cup {"."}
        /\ Len(d) - last >= 2
        /\ \A i \in (last + 1)..Len(d) : d[i] \in Letters

\* body('email').isEmail(): one "@", a non-empty local part of permitted
\* characters (no blanks), a fully qualified domain.  Nothing is trimmed.
IsEmail(s) ==
    LET ats == Positions(s, "@") IN
    /\ Cardinality(ats) = 1
    /\ LET at == CHOOSE i \in ats : TRUE
           local == SubSeq(s, 1, at - 1)
           domain == SubSeq(s, at + 1, Len(s))
       IN  /\ Len(local) >= 1
           /\ \A i \in 1..Len(local) : local[i] \in Letters \cup Digits \cup {".", "+", "_", "-"}
           /\ 1 \notin Positions(local, ".")
           /\ Len(local) \notin Positions(local, ".")
           /\ IsFQDN(domain)

\* the address is stored as submitted
NormalizeEmail_Identity(s) == s

\* body('email').normalizeEmail(): domain and local part are lower-cased
\* (all_lowercase).  The provider-specific rewrites (gmail, outlook, yahoo,
\* icloud) do not apply to the domains of EmailInputs.
NormalizeEmail(s) == ToLowerCase(s)

\* body('otpId').notEmpty()
NotEmpty(s) == Len(s) > 0

\* body('otp').isNumeric(): ^[+-]?([0-9]*[.])?[0-9]+$
IsNumeric(s) ==
    LET start == IF Len(s) >= 1 /\ s[1] \in {"+", "-"} THEN 2 ELSE 1
        dots == {i \in start..Len(s) : s[i] = "."}
    IN  /\ Len(s) >= start
        /\ \A i \in start..Len(s) : s[i] \in Digits \cup {"."}
        /\ Cardinality(dots) <= 1
        /\ s[Len(s)] \in Digits

\* body('otp').isLength({ min: 6, max: 6 }).isNumeric()
IsOtpFormat(s) == Len(s) = 6 /\ IsNumeric(s)

\* ------------------------------------------------------------- generateOTP
\* Math.random() is n / RandomDenominator for a numerator n
RandomNumerators == {0, RandomDenominator - 1}

\* the base is left out: Math.floor(Math.random() * 1000000).toString()
generateOTP_NoBase(n) == NatToString((n * 1000000) \div RandomDenominator)

\* Math.floor(100000 + Math.random() * 900000).toString()
generateOTP(n) == NatToString(OtpBase + ((n * OtpSpan) \div RandomDenominator))

\* ------------------------------------------------------------------ uuidv4
\* uuidv4() never returns the same value twice: the n-th value drawn at each call
\* site is the n-th entry of that site's pool (a uuid is one symbol of a string)
OtpIdPool == <<"h1", "h2", "h3", "h4", "h5">>
UserIdPool == <<"u1", "u2", "u3", "u4", "u5">>
ResumeIdPool == <<"r1", "r2", "r3", "r4", "r5">>
\* the uuid source returns a value it has returned before
OtpUuid_Reused(n) == <<OtpIdPool[1]>>

OtpUuid(n) == <<OtpIdPool[n]>>
UserUuid(n) == <<UserIdPool[n]>>
ResumeUuid(n) == <<ResumeIdPool[n]>>

\* ------------------------------------------------------------ jsonwebtoken
JwtSecret == "JWT_SECRET"

\* jwt.sign({ userId, email }, secret, { expiresIn: '7d' }) at time t (ms):
\* iat is Math.floor(t / 1000), exp is iat + 604800
JwtSign(userId, email, t) ==
    [kind |-> "jwt", userId |-> userId, email |-> email,
     iat |-> t \div 1000, exp |-> (t \div 1000) + SessionTtlS, key |-> JwtSecret]

\* a token is still accepted in the second it expires in
JwtVerifies_Inclusive(token, t) ==
    /\ token.kind = "jwt"
    /\ token.key = JwtSecret
    /\ (t \div 1000) <= token.exp

\* jwt.verify(token, secret) at time t (ms): throws on a malformed token, a
\* signature made with another key, and when Math.floor(t / 1000) >= exp
JwtVerifies(token, t) ==
    /\ token.kind = "jwt"
    /\ token.key = JwtSecret
    /\ (t \div 1000) < token.exp

\* ------------------------------------------------------------------- state
VARIABLES
    otpStore,     \* otpStore: otpId -> { email, otp, expiresAt }
    userStore,    \* userStore: email -> { id, email, createdAt }
    otpCount,     \* number of OTP ids drawn so far
    pendingMail,  \* request-otp handlers suspended in await sendOTPEmail
    inflight,     \* verify-otp requests that passed the validators, handler not yet run
    now,          \* Date.now()
    ticks,        \* number of clock steps taken
    tokens,       \* the JWTs issued so far, each with the time it was signed at
    blobs,        \* the 'resumes' container: blob name -> properties
    resumeCount,  \* number of resume ids drawn so far
    resp,         \* the response sent by the last step
    rawEmails,    \* history: otpId -> the address as it was submitted
    redeemed,     \* history: otpId -> the record redeemed, its user id, the number of logins
    expiredIds,   \* history: otpId -> the code of the record deleted as expired
    userCount,    \* number of user ids drawn so far
    client        \* the browser: localStorage 'token', the axios header, the user state

vars == <<otpStore, userStore, otpCount, pendingMail, inflight, now, ticks,
          tokens, blobs, resumeCount, resp, rawEmails, redeemed, expiredIds,
          userCount, client>>

blobVars == <<blobs, resumeCount>>
authVars == <<otpStore, userStore, otpCount, pendingMail, inflight, tokens,
              rawEmails, redeemed, expiredIds, userCount, client>>

\* two request slots: at most two verify-otp requests wait at the same time
Clients == {1, 2}

\* request bodies
EmailInputs ==
    { <<"a", "@", "b", ".", "c", "o">>,
      <<"c", "@", "b", ".", "c", "o">>,
      <<"a", "b", ".", "c", "o">> }
CaseEmailInputs ==
    { <<"A", "@", "B", ".", "c", "o">>,
      <<"a", "@", "b", ".", "c", "o">>,
      <<" ", "a", "@", "b", ".", "c", "o">>,
      <<"a", "@", "b", ".", "c", "o", " ">> }
OtpIdInputs == {OtpUuid(i) : i \in 1..otpCount} \cup {<<>>}
GeneratedOtps == {generateOTP(n) : n \in RandomNumerators}
OtpInputs ==
    GeneratedOtps \cup {<<"1", "2", "3", "4", "5">>, <<"+", "1", "2", "3", "4", "5">>}

\* clock steps (ms) of the OTP life cycle and of the session life cycle
OtpTickDeltas == {1, OtpTtlMs}
SessionTickDeltas == {500, SessionTtlS * 1000 - 500}
ResumeTickDeltas == {Horizon}
BrowserTickDeltas == {SessionTtlS * 1000}

\* what is typed into the email field of the Login page
WizardEmails == {<<"a", "@", "b", ".", "c", "o">>, <<"a", "b", ".", "c", "o">>}
ReissueTickDeltas == {OtpTtlMs}

\* req.file
Pdf == "application/pdf"
Docx == "application/vnd.openxmlformats-officedocument.wordprocessingml.document"
NoFile == [originalname |-> <<>>, mimetype |-> "", size |-> 0]

NoUser == [id |-> <<>>, email |-> <<>>, createdAt |-> -1]
NoToken == [kind |-> "none"]
Garbage == [kind |-> "garbage"]
Idle ==
    [op |-> "none", status |-> 0, error |-> "", email |-> <<>>, otpId |-> <<>>,
     otp |-> <<>>, with |-> {}, cred |-> NoToken, token |-> NoToken, user |-> NoUser,
     resumeId |-> <<>>, ops |-> <<>>, names |-> {}, file |-> NoFile, resumes |-> {},
     jobDescription |-> -1, customizedResumeId |-> <<>>]

\* nothing in localStorage, no default Authorization header, user null;
\* discarded is history: the tokens logout has removed
\* the state of the Login page: step, otpId, otp, email and loading are its
\* useState cells; pending is the call it awaits and sent the arguments of that
\* call; latest is the value the last requestOTP that resolved has returned
NoWizard ==
    [step |-> "email", otpId |-> <<>>, otp |-> <<>>, email |-> <<>>, loading |-> FALSE,
     pending |-> "none", sent |-> [email |-> <<>>, otpId |-> <<>>, otp |-> <<>>],
     latest |-> <<>>]

\* check is the token of the profile request checkAuth is waiting for
NoClient ==
    [token |-> NoToken, header |-> NoToken, user |-> NoUser, discarded |-> {},
     check |-> NoToken, wizard |-> NoWizard]

Remove(f, k) == [x \in DOMAIN f \ {k} |-> f[x]]
Put(f, k, v) == [x \in DOMAIN f \cup {k} |-> IF x = k THEN v ELSE f[x]]

Init ==
    /\ otpStore = <<>>
    /\ userStore = <<>>
    /\ otpCount = 0
    /\ pendingMail = {}
    /\ inflight = {}
    /\ now = 0
    /\ ticks = 0
    /\ tokens = {}
    /\ blobs = <<>>
    /\ resumeCount = 0
    /\ resp = Idle
    /\ rawEmails = <<>>
    /\ redeemed = <<>>
    /\ expiredIds = <<>>
    /\ userCount = 0
    /\ client = NoClient

\* ------------------------------------------------------- POST /request-otp
\* validationResult(req) is not empty: 400, nothing else happens
RequestOtpInvalid(rawEmail) ==
    /\ ~IsEmail(rawEmail)
    /\ resp' = [Idle EXCEPT !.op = "request-otp", !.status = 400, !.error = "validation",
                            !.email = rawEmail]
    /\ UNCHANGED <<client, userCount, blobs, resumeCount, otpStore, userStore, otpCount, pendingMail, inflight, now, ticks,
                   tokens, rawEmails, redeemed, expiredIds>>

\* the life of a record is added in seconds
OtpRecord_Seconds(email, otp, t) == [email |-> email, otp |-> otp, expiresAt |-> t + 10 * 60]

\* the record the handler stores
OtpRecord(email, otp, t) == [email |-> email, otp |-> otp, expiresAt |-> t + OtpTtlMs]

\* what the handler does to the store when sendOTPEmail returned false
OnSendFailure(store, otpId) == store

\* the handler's answer once sendOTPEmail has resolved
RequestOtpAnswer(rawEmail, otpId, emailSent) ==
    IF emailSent
    THEN [Idle EXCEPT !.op = "request-otp", !.status = 200, !.otpId = otpId,
                      !.email = rawEmail]
    ELSE [Idle EXCEPT !.op = "request-otp", !.status = 500, !.otpId = otpId,
                      !.email = rawEmail, !.error = "Failed to send OTP email"]

\* the handler up to `await sendOTPEmail(email, otp)`
RequestOtp(rawEmail, n, max) ==
    /\ IsEmail(rawEmail)
    /\ otpCount < max
    /\ LET email == NormalizeEmail(rawEmail)
           otp == generateOTP(n)
           otpId == OtpUuid(otpCount + 1)
       IN  /\ otpCount' = otpCount + 1
           /\ otpStore' = Put(otpStore, otpId, OtpRecord(email, otp, now))
           /\ rawEmails' = Put(rawEmails, otpId, rawEmail)
           /\ pendingMail' = pendingMail \cup {otpId}
           /\ resp' = [Idle EXCEPT !.op = "request-otp-await"]
    /\ UNCHANGED <<client, userCount, blobs, resumeCount, userStore, inflight, now, ticks, tokens, redeemed, expiredIds>>

\* sendOTPEmail resolves (true: sendMail succeeded, false: it threw) and the
\* handler answers
RequestOtpReply(otpId, emailSent) ==
    /\ otpId \in pendingMail
    /\ pendingMail' = pendingMail \ {otpId}
    /\ otpStore' = IF emailSent THEN otpStore ELSE OnSendFailure(otpStore, otpId)
    /\ resp' = RequestOtpAnswer(rawEmails[otpId], otpId, emailSent)
    /\ UNCHANGED <<client, userCount, blobs, resumeCount, userStore, otpCount, inflight, now, ticks, tokens, rawEmails,
                   redeemed, expiredIds>>

\* the whole handler, when no other request is served while the mail is sent
RequestOtpServed(rawEmail, n, emailSent, max) ==
    /\ IsEmail(rawEmail)
    /\ otpCount < max
    /\ pendingMail = {}
    /\ LET email == NormalizeEmail(rawEmail)
           otp == generateOTP(n)
           otpId == OtpUuid(otpCount + 1)
           stored == Put(otpStore, otpId, OtpRecord(email, otp, now))
       IN  /\ otpCount' = otpCount + 1
           /\ otpStore' = IF emailSent THEN stored ELSE OnSendFailure(stored, otpId)
           /\ rawEmails' = Put(rawEmails, otpId, rawEmail)
           /\ resp' = RequestOtpAnswer(rawEmail, otpId, emailSent)
    /\ UNCHANGED <<client, userCount, blobs, resumeCount, userStore, pendingMail, inflight, now, ticks, tokens, redeemed,
                   expiredIds>>

\* -------------------------------------------------------- POST /verify-otp
\* validationResult(req) is not empty: 400, nothing else happens
VerifyOtpInvalid(otpId, otp) ==
    /\ ~(NotEmpty(otpId) /\ IsOtpFormat(otp))
    /\ resp' = [Idle EXCEPT !.op = "verify-otp", !.status = 400, !.error = "validation"]
    /\ UNCHANGED <<client, userCount, blobs, resumeCount, otpStore, userStore, otpCount, pendingMail, inflight, now, ticks,
                   tokens, rawEmails, redeemed, expiredIds>>

\* the validators have run (asynchronously) and the request waits for its handler,
\* in the first free slot; `with` will record the otpIds redeemed while it waits
VerifyOtpArrive(c, otpId, otp) ==
    /\ NotEmpty(otpId) /\ IsOtpFormat(otp)
    /\ \A r \in inflight : r.client # c
    /\ \A d \in Clients : d < c => \E r \in inflight : r.client = d
    /\ inflight' = inflight \cup {[client |-> c, otpId |-> otpId, otp |-> otp, with |-> {}]}
    /\ resp' = [Idle EXCEPT !.op = "verify-otp-await"]
    /\ UNCHANGED <<client, userCount, blobs, resumeCount, otpStore, userStore, otpCount, pendingMail, now, ticks, tokens,
                   rawEmails, redeemed, expiredIds>>

\* a record is expired already at expiresAt
OtpExpired_AtBoundary(rec, t) == t >= rec.expiresAt

\* Date.now() > storedData.expiresAt
OtpExpired(rec, t) == t > rec.expiresAt

\* !(storedData.otp !== otp)
OtpMatches(rec, otp) == rec.otp = otp

\* a wrong code burns the record
OnMismatch_Delete(store, otpId) == Remove(store, otpId)

\* the store after the 'Invalid OTP' answer
OnMismatch(store, otpId) == store

\* the record is left in the store after a login
CleanUpOtp_Keep(store, otpId) == store

\* a login removes every record of its email
CleanUpOtp_AllOfEmail(store, otpId) ==
    [h \in {g \in DOMAIN store : store[g].email # store[otpId].email} |-> store[h]]

\* otpStore.delete(otpId) after a successful login
CleanUpOtp(store, otpId) == Remove(store, otpId)

\* an expired record is left in the store
DeleteExpired_Keep(store, otpId) == store

\* otpStore.delete(otpId) of an expired record
DeleteExpired(store, otpId) == Remove(store, otpId)

\* the user record created on first login
NewUser(email, id, t) == [id |-> id, email |-> email, createdAt |-> t]

\* every login creates a user record
GetOrCreateUser_AlwaysNew(users, email, id, t) == NewUser(email, id, t)

\* a login of a known email refreshes createdAt
GetOrCreateUser_Touch(users, email, id, t) ==
    IF email \in DOMAIN users THEN [users[email] EXCEPT !.createdAt = t]
    ELSE NewUser(email, id, t)

\* userStore.get(email), or the new record when there is none
GetOrCreateUser(users, email, id, t) ==
    IF email \in DOMAIN users THEN users[email] ELSE NewUser(email, id, t)

\* history of successful logins per otpId
CountLogin(h, otpId, otp, id, expiresAt) ==
    IF otpId \in DOMAIN h THEN [h EXCEPT ![otpId].n = @ + 1, ![otpId].id = id]
    ELSE Put(h, otpId, [otp |-> otp, n |-> 1, id |-> id, expiresAt |-> expiresAt])

\* the handler body (lines 105-151): no await, so it runs as one step
VerifyOtpBody(r) ==
    /\ LET base == [Idle EXCEPT !.op = "verify-otp", !.otpId = r.otpId, !.otp = r.otp,
                               !.with = r.with]
       IN
       IF r.otpId \notin DOMAIN otpStore THEN
           /\ resp' = [base EXCEPT !.status = 400, !.error = "Invalid OTP ID"]
           /\ UNCHANGED <<otpStore, userStore, userCount, tokens, redeemed, expiredIds>>
       ELSE IF OtpExpired(otpStore[r.otpId], now) THEN
           /\ otpStore' = DeleteExpired(otpStore, r.otpId)
           /\ expiredIds' = Put(expiredIds, r.otpId, otpStore[r.otpId].otp)
           /\ resp' = [base EXCEPT !.status = 400, !.error = "OTP expired"]
           /\ UNCHANGED <<userStore, userCount, tokens, redeemed>>
       ELSE IF ~OtpMatches(otpStore[r.otpId], r.otp) THEN
           /\ otpStore' = OnMismatch(otpStore, r.otpId)
           /\ resp' = [base EXCEPT !.status = 400, !.error = "Invalid OTP"]
           /\ UNCHANGED <<userStore, userCount, tokens, redeemed, expiredIds>>
       ELSE
           LET email == otpStore[r.otpId].email
               user == GetOrCreateUser(userStore, email, UserUuid(userCount + 1), now)
               token == JwtSign(user.id, user.email, now)
           IN  /\ userStore' = Put(userStore, email, user)
               /\ userCount' = IF email \in DOMAIN userStore THEN userCount
                                ELSE userCount + 1
               /\ tokens' = tokens \cup {[jwt |-> token, signedAt |-> now]}
               /\ otpStore' = CleanUpOtp(otpStore, r.otpId)
               /\ redeemed' = CountLogin(redeemed, r.otpId, r.otp, user.id,
                                          otpStore[r.otpId].expiresAt)
               /\ resp' = [base EXCEPT !.status = 200, !.token = token, !.user = user]
               /\ UNCHANGED expiredIds
    /\ UNCHANGED <<client, blobs, resumeCount, otpCount, pendingMail, now, ticks, rawEmails>>

\* the handler of a waiting request runs
VerifyOtp(r) ==
    /\ r \in inflight
    /\ VerifyOtpBody(r)
    /\ inflight' = IF resp'.status = 200
                   THEN {[q EXCEPT !.with = @ \cup {r.otpId}] : q \in inflight \ {r}}
                   ELSE inflight \ {r}

\* a request whose handler runs before any other request is served
VerifyOtpDirect(otpId, otp) ==
    /\ NotEmpty(otpId) /\ IsOtpFormat(otp)
    /\ inflight = {}
    /\ UNCHANGED inflight
    /\ VerifyOtpBody([client |-> 1, otpId |-> otpId, otp |-> otp, with |-> {}])

\* the handler in a process started without JWT_SECRET: jwt.sign throws
\* 'secretOrPrivateKey must have a value' after the user has been stored; the
\* catch block answers 500 and otpStore.delete is not reached.  The three
\* failure answers are sent before jwt.sign, as in VerifyOtpBody.
VerifyOtpNoSecret(otpId, otp) ==
    /\ NotEmpty(otpId) /\ IsOtpFormat(otp)
    /\ inflight = {}
    /\ IF /\ otpId \in DOMAIN otpStore
          /\ ~OtpExpired(otpStore[otpId], now)
          /\ OtpMatches(otpStore[otpId], otp)
       THEN LET email == otpStore[otpId].email
                user == GetOrCreateUser(userStore, email, UserUuid(userCount + 1), now)
            IN  /\ userStore' = Put(userStore, email, user)
                /\ userCount' = IF email \in DOMAIN userStore THEN userCount
                                 ELSE userCount + 1
                /\ resp' = [Idle EXCEPT !.op = "verify-otp", !.otpId = otpId, !.otp = otp,
                                        !.status = 500, !.error = "Internal server error"]
                /\ UNCHANGED <<client, blobs, resumeCount, otpStore, otpCount, pendingMail,
                               inflight, now, ticks, tokens, rawEmails, redeemed, expiredIds>>
       ELSE VerifyOtpDirect(otpId, otp)

\* the server process is started again: otpStore and userStore are new, empty
\* Maps, requests in flight are lost; the tokens issued stay with their clients
\* and JWT_SECRET is the same, the blob container is not touched
Restart ==
    /\ otpStore # <<>> \/ userStore # <<>>
    /\ otpStore' = <<>>
    /\ userStore' = <<>>
    /\ pendingMail' = {}
    /\ inflight' = {}
    /\ resp' = [Idle EXCEPT !.op = "restart"]
    /\ UNCHANGED <<client, userCount, blobs, resumeCount, otpCount, now, ticks, tokens,
                   rawEmails, redeemed, expiredIds>>

\* ------------------------------------------------------ client AuthProvider
\* verifyOTP after its await: the 200 answer of verify-otp has arrived; the token
\* goes to localStorage and to the axios default header, the user to the state
VerifyOTPResolved ==
    /\ resp.op = "verify-otp"
    /\ resp.status = 200
    /\ client' = [client EXCEPT !.token = resp.token, !.header = resp.token,
                                !.user = resp.user]
    /\ UNCHANGED <<userCount, blobs, resumeCount, otpStore, userStore, otpCount, pendingMail,
                   inflight, now, ticks, tokens, resp, rawEmails, redeemed, expiredIds>>

\* logout: localStorage.removeItem('token'), the header deleted, setUser(null);
\* no request is sent to the server
Logout ==
    /\ client' = [client EXCEPT !.token = NoToken, !.header = NoToken, !.user = NoUser,
                                !.discarded = client.discarded \cup ({client.token} \ {NoToken})]
    /\ resp' = [Idle EXCEPT !.op = "logout"]
    /\ UNCHANGED <<userCount, blobs, resumeCount, otpStore, userStore, otpCount, pendingMail,
                   inflight, now, ticks, tokens, rawEmails, redeemed, expiredIds>>

\* ---------------------------------------------------------------- the clock
Tick(d) ==
    /\ ticks < MaxTicks
    /\ d <= Horizon - now
    /\ now' = now + d
    /\ ticks' = ticks + 1
    /\ resp' = Idle
    /\ UNCHANGED <<client, userCount, blobs, resumeCount, otpStore, userStore, otpCount, pendingMail, inflight, tokens,
                   rawEmails, redeemed, expiredIds>>

\* ------------------------------------------------------------ credentials
\* a token with the same claims signed with another key
Forge(jwt) == [jwt EXCEPT !.key = "other"]

\* what a request may carry in its Authorization header: nothing, a string that
\* is no JWT, an issued token, or a forged copy of one
Credentials ==
    {NoToken, Garbage} \cup {k.jwt : k \in tokens} \cup {Forge(k.jwt) : k \in tokens}

Unforged == {NoToken, Garbage} \cup {k.jwt : k \in tokens}

\* the token is decoded without being verified
authenticateToken_Decode(cred, t) ==
    IF cred.kind = "none"
    THEN [ok |-> FALSE, status |-> 401, error |-> "Access token required", user |-> NoToken]
    ELSE IF cred.kind = "jwt"
    THEN [ok |-> TRUE, status |-> 0, error |-> "", user |-> cred]
    ELSE [ok |-> FALSE, status |-> 403, error |-> "Invalid token", user |-> NoToken]

\* an expired token gets an answer of its own
authenticateToken_NamesExpiry(cred, t) ==
    IF cred.kind = "none"
    THEN [ok |-> FALSE, status |-> 401, error |-> "Access token required", user |-> NoToken]
    ELSE IF JwtVerifies(cred, t)
    THEN [ok |-> TRUE, status |-> 0, error |-> "", user |-> cred]
    ELSE IF cred.kind = "jwt" /\ cred.key = JwtSecret
    THEN [ok |-> FALSE, status |-> 401, error |-> "Token expired", user |-> NoToken]
    ELSE [ok |-> FALSE, status |-> 403, error |-> "Invalid token", user |-> NoToken]

\* the server refuses the tokens a logout has discarded
authenticateToken_Revoking(cred, t) ==
    IF cred.kind = "none"
    THEN [ok |-> FALSE, status |-> 401, error |-> "Access token required", user |-> NoToken]
    ELSE IF JwtVerifies(cred, t) /\ cred \notin client.discarded
    THEN [ok |-> TRUE, status |-> 0, error |-> "", user |-> cred]
    ELSE [ok |-> FALSE, status |-> 403, error |-> "Invalid token", user |-> NoToken]

\* authenticateToken of routes/resume: req.user, or the error answer
authenticateToken(cred, t) ==
    IF cred.kind = "none"
    THEN [ok |-> FALSE, status |-> 401, error |-> "Access token required", user |-> NoToken]
    ELSE IF JwtVerifies(cred, t)
    THEN [ok |-> TRUE, status |-> 0, error |-> "", user |-> cred]
    ELSE [ok |-> FALSE, status |-> 403, error |-> "Invalid token", user |-> NoToken]

\* authenticateToken of routes/ai (a copy of the one above)
authenticateTokenAi(cred, t) ==
    IF cred.kind = "none"
    THEN [ok |-> FALSE, status |-> 401, error |-> "Access token required", user |-> NoToken]
    ELSE IF JwtVerifies(cred, t)
    THEN [ok |-> TRUE, status |-> 0, error |-> "", user |-> cred]
    ELSE [ok |-> FALSE, status |-> 403, error |-> "Invalid token", user |-> NoToken]

Rejected(op, cred, auth) ==
    [Idle EXCEPT !.op = op, !.cred = cred, !.status = auth.status, !.error = auth.error]

\* ------------------------------------------------------------ GET /profile
ProfileAnswer(cred) ==
    LET base == [Idle EXCEPT !.op = "profile", !.cred = cred] IN
    IF cred.kind = "none"
    THEN [base EXCEPT !.status = 401, !.error = "No token provided"]
    ELSE IF ~JwtVerifies(cred, now)
    THEN [base EXCEPT !.status = 401, !.error = "Invalid token"]
    ELSE IF cred.email \notin DOMAIN userStore
    THEN [base EXCEPT !.status = 404, !.error = "User not found"]
    ELSE [base EXCEPT !.status = 200, !.user = userStore[cred.email]]

Profile(cred) ==
    /\ resp' = ProfileAnswer(cred)
    /\ UNCHANGED <<authVars, blobVars, now, ticks>>

\* ------------------------------------------------- client AuthProvider, 2
\* what the browser does not hold: the server's stores, the clock, the container
serverVars ==
    <<userCount, blobs, resumeCount, otpStore, userStore, otpCount, pendingMail, inflight,
      now, ticks, tokens, rawEmails, redeemed, expiredIds>>

\* the page is loaded: the React state starts anew, localStorage is kept; the
\* first effect copies the stored token to the axios header, checkAuth sends
\* GET /profile when a token is stored and awaits the answer
Mount ==
    /\ client' = [client EXCEPT !.header = client.token, !.user = NoUser,
                                !.check = client.token, !.wizard = NoWizard]
    /\ resp' = [Idle EXCEPT !.op = "mount"]
    /\ UNCHANGED serverVars

\* checkAuth after its await: the answer to the profile request sent with the
\* token of the page load; 200 sets the user, an error removes whatever token
\* is stored now and the header
CheckAuthResolved ==
    /\ client.check # NoToken
    /\ LET response == ProfileAnswer(client.check)
       IN  client' = IF response.status = 200
                     THEN [client EXCEPT !.user = response.user, !.check = NoToken]
                     ELSE [client EXCEPT !.token = NoToken, !.header = NoToken,
                                         !.check = NoToken]
    /\ UNCHANGED <<serverVars, resp>>

\* ------------------------------------------------------- client Login page
\* a request of the page is on its way and has no answer yet
Sent == [Idle EXCEPT !.op = "sent"]

\* onChange of the email input, which is shown in step 'email'
SetEmail(e) ==
    /\ client.wizard.step = "email"
    /\ client.wizard.email # e
    /\ client' = [client EXCEPT !.wizard.email = e]
    /\ UNCHANGED <<serverVars, resp>>

\* onChange of the code input, which keeps digits only, six at most
SetOtp(o) ==
    /\ client.wizard.step = "otp"
    /\ client.wizard.otp # o
    /\ client' = [client EXCEPT !.wizard.otp = o]
    /\ UNCHANGED <<serverVars, resp>>

\* handleEmailSubmit up to `await requestOTP(email)`; the submit button is
\* disabled while loading or without an email
HandleEmailSubmit ==
    /\ client.wizard.step = "email"
    /\ ~client.wizard.loading
    /\ client.wizard.email # <<>>
    /\ client' = [client EXCEPT !.wizard.loading = TRUE, !.wizard.pending = "request",
                                !.wizard.sent.email = client.wizard.email]
    /\ resp' = Sent
    /\ UNCHANGED serverVars

\* the Resend button up to `await requestOTP(email)`; disabled while loading
Resend ==
    /\ client.wizard.step = "otp"
    /\ ~client.wizard.loading
    /\ client' = [client EXCEPT !.wizard.loading = TRUE, !.wizard.pending = "resend",
                                !.wizard.sent.email = client.wizard.email]
    /\ resp' = Sent
    /\ UNCHANGED serverVars

\* handleOTPSubmit up to `await verifyOTP(otpId, otp)`
HandleOTPSubmit ==
    /\ client.wizard.step = "otp"
    /\ ~client.wizard.loading
    /\ Len(client.wizard.otp) = 6
    /\ client' = [client EXCEPT !.wizard.loading = TRUE, !.wizard.pending = "verify",
                                !.wizard.sent.otpId = client.wizard.otpId,
                                !.wizard.sent.otp = client.wizard.otp]
    /\ resp' = Sent
    /\ UNCHANGED serverVars

\* Back keeps the handle
BackToEmail_KeepsOtpId(w) == [w EXCEPT !.step = "email", !.otp = <<>>]

\* setStep('email'); setOtp(''); setOtpId('')
BackToEmail(w) == [w EXCEPT !.step = "email", !.otp = <<>>, !.otpId = <<>>]

\* handleBackToEmail; the Back button is shown in step 'otp' and is not disabled
\* while a request is awaited
HandleBackToEmail ==
    /\ client.wizard.step = "otp"
    /\ client' = [client EXCEPT !.wizard = BackToEmail(client.wizard)]
    /\ UNCHANGED <<serverVars, resp>>

\* the server answers the request-otp the page has sent
WizardRequestServed(n, emailSent) ==
    /\ client.wizard.pending \in {"request", "resend"}
    /\ resp = Sent
    /\ IF IsEmail(client.wizard.sent.email)
       THEN RequestOtpServed(client.wizard.sent.email, n, emailSent, MaxRaceOtps)
       ELSE RequestOtpInvalid(client.wizard.sent.email)

\* the server answers the verify-otp the page has sent
WizardVerifyServed ==
    /\ client.wizard.pending = "verify"
    /\ resp = Sent
    /\ IF NotEmpty(client.wizard.sent.otpId) /\ IsOtpFormat(client.wizard.sent.otp)
       THEN VerifyOtpDirect(client.wizard.sent.otpId, client.wizard.sent.otp)
       ELSE VerifyOtpInvalid(client.wizard.sent.otpId, client.wizard.sent.otp)

\* handleEmailSubmit and Resend after the await: requestOTP has returned
\* response.data.otpId or has thrown; finally setLoading(false)
RequestOTPSettled ==
    /\ client.wizard.pending \in {"request", "resend"}
    /\ resp.op = "request-otp"
    /\ LET w == client.wizard
           done == [w EXCEPT !.loading = FALSE, !.pending = "none", !.sent = NoWizard.sent]
       IN  client' =
             IF resp.status # 200 THEN [client EXCEPT !.wizard = done]
             ELSE IF w.pending = "request"
             THEN [client EXCEPT !.wizard = [done EXCEPT !.otpId = resp.otpId,
                                                         !.step = "otp",
                                                         !.latest = resp.otpId]]
             ELSE [client EXCEPT !.wizard = [done EXCEPT !.otpId = resp.otpId,
                                                         !.otp = <<>>,
                                                         !.latest = resp.otpId]]
    /\ UNCHANGED <<serverVars, resp>>

\* handleOTPSubmit after the await: verifyOTP has stored the token and the user
\* or has thrown; finally setLoading(false)
HandleOTPSettled ==
    /\ client.wizard.pending = "verify"
    /\ resp.op = "verify-otp"
    /\ LET done == [client.wizard EXCEPT !.loading = FALSE, !.pending = "none",
                                         !.sent = NoWizard.sent]
       IN  client' =
             IF resp.status = 200
             THEN [client EXCEPT !.token = resp.token, !.header = resp.token,
                                 !.user = resp.user, !.wizard = done]
             ELSE [client EXCEPT !.wizard = done]
    /\ UNCHANGED <<serverVars, resp>>

\* ------------------------------------------------------------ blob storage
\* `${userId}/${resumeId}_${originalname}`
BlobName(userId, resumeId, originalname) == userId \o <<"/">> \o resumeId \o <<"_">> \o originalname

\* `${userId}/`
UserPrefix(userId) == userId \o <<"/">>

\* the listing is not restricted to the prefix
ListBlobsFlat_NoPrefix(store, prefix) == DOMAIN store

\* containerClient.listBlobsFlat({ prefix })
ListBlobsFlat(store, prefix) == {name \in DOMAIN store : StartsWith(name, prefix)}

\* the blobs of the listing whose name includes resumeId; the handler takes the
\* first one in listing order, which is the order of the (random) resume uuids
Targets(store, userId, resumeId) ==
    {name \in ListBlobsFlat(store, UserPrefix(userId)) : Includes(name, resumeId)}

\* blob.name.split('/')[1].split('_')[0]
EntryId(name) == Split(Split(name, "/")[2], "_")[1]

\* the file name is taken to be the part between the first two underscores
EntryFileName_SecondPart(name) == Split(name, "_")[2]

\* blob.name.split('_').slice(1).join('_')
EntryFileName(name) == Join(Tail(Split(name, "_")), "_")

\* one element of the resumes array of GET /resume/list
ListEntry(store, name) ==
    [id |-> EntryId(name), fileName |-> EntryFileName(name), blobName |-> name,
     size |-> store[name].size]

Op(kind, arg) == [kind |-> kind, arg |-> arg]

Files ==
    { [originalname |-> <<"c", "v">>, mimetype |-> Pdf, size |-> 1024],
      [originalname |-> <<"c", "_", "v">>, mimetype |-> Docx, size |-> MaxFileSize],
      [originalname |-> <<"c", "v">>, mimetype |-> "text/plain", size |-> 1024],
      [originalname |-> <<"c", "v">>, mimetype |-> Pdf, size |-> MaxFileSize + 1],
      NoFile }

\* a filter that looks at the MIME type only
FileAccepted_AnySize(file) == file.mimetype \in {Pdf, Docx}

\* multer's fileFilter and limits.fileSize
FileAccepted(file) == file.mimetype \in {Pdf, Docx} /\ file.size <= MaxFileSize

\* extractTextFromFile(buffer, mimetype) resolves or throws; it is not reached
\* for a file multer refused
ExtractionOutcomes(file) == IF FileAccepted(file) THEN BOOLEAN ELSE {TRUE}

ResumeIdInputs == {ResumeUuid(i) : i \in 1..resumeCount} \cup {<<"_">>}

\* ------------------------------------------------------ POST /resume/upload
UploadResume(cred, file, extracted) ==
    LET auth == authenticateToken(cred, now)
        userId == auth.user.userId
        resumeId == ResumeUuid(resumeCount + 1)
        fileName == BlobName(userId, resumeId, file.originalname)
        base == [Idle EXCEPT !.op = "upload", !.cred = cred, !.file = file]
    IN  /\ resumeCount < MaxResumes
        /\ IF ~auth.ok THEN
               /\ resp' = [Rejected("upload", cred, auth) EXCEPT !.file = file]
               /\ UNCHANGED blobVars
           ELSE IF file # NoFile /\ ~FileAccepted(file) THEN
               \* multer passes its error to Express's error handler
               /\ resp' = [base EXCEPT !.status = 500, !.error = "multer"]
               /\ UNCHANGED blobVars
           ELSE IF file = NoFile THEN
               /\ resp' = [base EXCEPT !.status = 400, !.error = "No file uploaded"]
               /\ UNCHANGED blobVars
           ELSE
               /\ resumeCount' = resumeCount + 1
               /\ blobs' = Put(blobs, fileName,
                               [owner |-> userId, contentType |-> file.mimetype,
                                size |-> file.size, resumeId |-> resumeId,
                                originalname |-> file.originalname])
               /\ resp' = IF extracted
                          THEN [base EXCEPT !.status = 200, !.resumeId = resumeId,
                                            !.names = {fileName},
                                            !.ops = <<Op("upload", fileName)>>]
                          ELSE [base EXCEPT !.status = 500,
                                            !.error = "Failed to upload resume",
                                            !.ops = <<Op("upload", fileName)>>]
        /\ UNCHANGED <<authVars, now, ticks>>

\* -------------------------------------------------------- GET /resume/list
ListResumes(cred) ==
    LET auth == authenticateToken(cred, now)
        userPrefix == UserPrefix(auth.user.userId)
    IN  /\ resp' = IF ~auth.ok THEN Rejected("list", cred, auth)
                   ELSE [Idle EXCEPT !.op = "list", !.cred = cred, !.status = 200,
                                     !.user = [NoUser EXCEPT !.id = auth.user.userId],
                                     !.names = ListBlobsFlat(blobs, userPrefix),
                                     !.resumes = {ListEntry(blobs, name) :
                                                    name \in ListBlobsFlat(blobs, userPrefix)},
                                     !.ops = <<Op("list", userPrefix)>>]
        /\ UNCHANGED <<authVars, blobVars, now, ticks>>

\* --------------------------------------------------- GET /resume/:resumeId
GetResume(cred, resumeId) ==
    LET auth == authenticateToken(cred, now)
        userId == auth.user.userId
        base == [Idle EXCEPT !.op = "get", !.cred = cred, !.resumeId = resumeId]
    IN  /\ IF ~auth.ok THEN resp' = Rejected("get", cred, auth)
           ELSE IF Targets(blobs, userId, resumeId) = {} THEN
               resp' = [base EXCEPT !.status = 404, !.error = "Resume not found",
                                    !.ops = <<Op("list", UserPrefix(userId))>>]
           ELSE \E target \in Targets(blobs, userId, resumeId) :
               resp' = [base EXCEPT !.status = 200, !.names = {target},
                                    !.ops = <<Op("list", UserPrefix(userId)),
                                              Op("download", target)>>]
        /\ UNCHANGED <<authVars, blobVars, now, ticks>>

\* ------------------------------------------------ DELETE /resume/:resumeId
DeleteResume(cred, resumeId) ==
    LET auth == authenticateToken(cred, now)
        userId == auth.user.userId
        base == [Idle EXCEPT !.op = "delete", !.cred = cred, !.resumeId = resumeId]
    IN  /\ IF ~auth.ok THEN
               /\ resp' = Rejected("delete", cred, auth)
               /\ UNCHANGED blobs
           ELSE IF Targets(blobs, userId, resumeId) = {} THEN
               /\ resp' = [base EXCEPT !.status = 404, !.error = "Resume not found",
                                       !.ops = <<Op("list", UserPrefix(userId))>>]
               /\ UNCHANGED blobs
           ELSE \E target \in Targets(blobs, userId, resumeId) :
               /\ blobs' = Remove(blobs, target)
               /\ resp' = [base EXCEPT !.status = 200,
                                       !.ops = <<Op("list", UserPrefix(userId)),
                                                 Op("delete", target)>>]
        /\ UNCHANGED <<authVars, resumeCount, now, ticks>>

\* ------------------------------------------------------------- routes/ai
\* getResumeContent(resumeId, userId): the blobs it may download
GetResumeContent(store, resumeId, userId) == Targets(store, userId, resumeId)

\* the length of the jobDescription field of the request body
JobDescriptionInputs == {0, MinJobDescription - 1, MinJobDescription}
RequestBodies ==
    {[resumeId |-> r, jobDescription |-> j] : r \in ResumeIdInputs, j \in {MinJobDescription}}
        \cup {[resumeId |-> <<>>, jobDescription |-> MinJobDescription]}
        \cup {[resumeId |-> <<"_">>, jobDescription |-> j] : j \in JobDescriptionInputs}

CustomizedName == <<"c", "u", "s", "t", "o", "m", "i", "z", "e", "d">>

\* the blob is written as soon as the first completion has returned
CustomizedSaved_AfterFirst(ai) == ai >= 1

\* blockBlobClient.upload is reached when both awaited completions have returned
CustomizedSaved(ai) == ai = 2

\* POST /ai/customize-resume; ai is the number of chat completions that succeed
CustomizeResume(cred, resumeId, jobDescription, ai) ==
    LET auth == authenticateTokenAi(cred, now)
        userId == auth.user.userId
        base == [Idle EXCEPT !.op = "customize", !.cred = cred, !.resumeId = resumeId,
                             !.jobDescription = jobDescription]
        customizedResumeId == ResumeUuid(resumeCount + 1)
        fileName == BlobName(userId, customizedResumeId, CustomizedName)
        list == Op("list", UserPrefix(userId))
        failed == [base EXCEPT !.status = 500, !.error = "Failed to customize resume"]
    IN  /\ resumeCount < MaxResumes
        /\ IF ~auth.ok THEN
               /\ resp' = Rejected("customize", cred, auth)
               /\ UNCHANGED blobVars
           ELSE IF ~(NotEmpty(resumeId) /\ jobDescription >= MinJobDescription) THEN
               /\ resp' = [base EXCEPT !.status = 400, !.error = "validation"]
               /\ UNCHANGED blobVars
           ELSE IF GetResumeContent(blobs, resumeId, userId) = {} THEN
               /\ resp' = [failed EXCEPT !.ops = <<list>>]
               /\ UNCHANGED blobVars
           ELSE \E target \in GetResumeContent(blobs, resumeId, userId) :
               LET read == <<list, Op("download", target)>>
                   asked == IF ai = 0 THEN <<Op("ai", <<>>)>>
                            ELSE <<Op("ai", <<>>), Op("ai", <<>>)>>
               IN
               IF ~CustomizedSaved(ai) THEN
                   /\ resp' = [failed EXCEPT !.ops = read \o asked]
                   /\ UNCHANGED blobVars
               ELSE
                   /\ resumeCount' = resumeCount + 1
                   /\ blobs' = Put(blobs, fileName,
                                   [owner |-> userId, contentType |-> "text/plain",
                                    size |-> 1, resumeId |-> customizedResumeId,
                                    originalname |-> CustomizedName])
                   /\ resp' = IF ai = 2
                              THEN [base EXCEPT !.status = 200, !.names = {target, fileName},
                                                !.customizedResumeId = customizedResumeId,
                                                !.ops = read \o asked \o <<Op("upload", fileName)>>]
                              ELSE [failed EXCEPT !.ops = read \o <<Op("ai", <<>>),
                                                                     Op("upload", fileName),
                                                                     Op("ai", <<>>)>>]
        /\ UNCHANGED <<authVars, now, ticks>>

\* POST /ai/analyze-skills and POST /ai/generate-cover-letter: one chat completion
\* over the resume's text, nothing stored
ReadAndAsk(op, cred, resumeId, jobDescription, answered) ==
    LET auth == authenticateTokenAi(cred, now)
        userId == auth.user.userId
        base == [Idle EXCEPT !.op = op, !.cred = cred, !.resumeId = resumeId]
        list == Op("list", UserPrefix(userId))
    IN  /\ IF ~auth.ok THEN resp' = Rejected(op, cred, auth)
           ELSE IF ~(NotEmpty(resumeId) /\ jobDescription > 0) THEN
               resp' = [base EXCEPT !.status = 400, !.error = "validation"]
           ELSE IF GetResumeContent(blobs, resumeId, userId) = {} THEN
               resp' = [base EXCEPT !.status = 500, !.ops = <<list>>, !.error = "failed"]
           ELSE \E target \in GetResumeContent(blobs, resumeId, userId) :
               resp' = [base EXCEPT !.status = IF answered THEN 200 ELSE 500,
                                    !.error = IF answered THEN "" ELSE "failed",
                                    !.names = IF answered THEN {target} ELSE {},
                                    !.ops = <<list, Op("download", target), Op("ai", <<>>)>>]
        /\ UNCHANGED <<authVars, blobVars, now, ticks>>

AnalyzeSkills(cred, resumeId, jobDescription, answered) ==
    ReadAndAsk("skills", cred, resumeId, jobDescription, answered)

GenerateCoverLetter(cred, resumeId, jobDescription, answered) ==
    ReadAndAsk("cover-letter", cred, resumeId, jobDescription, answered)

\* --------------------------------------------------------- specifications
\* the OTP life cycle, one request served at a time, with the clock
Next ==
    \/ \E e \in EmailInputs : RequestOtpInvalid(e)
    \/ \E e \in EmailInputs, n \in RandomNumerators, ok \in BOOLEAN :
          RequestOtpServed(e, n, ok, MaxOtps)
    \/ \E h \in OtpIdInputs, o \in OtpInputs : VerifyOtpInvalid(h, o)
    \/ \E h \in OtpIdInputs, o \in OtpInputs : VerifyOtpDirect(h, o)
    \/ \E d \in OtpTickDeltas : Tick(d)

Spec == Init /\ [][Next]_vars

\* request-otp with its await: other requests are served while the mail is sent
NextMail ==
    \/ \E e \in CaseEmailInputs : RequestOtpInvalid(e)
    \/ \E e \in CaseEmailInputs, n \in RandomNumerators : RequestOtp(e, n, MaxRaceOtps)
    \/ \E h \in pendingMail, ok \in BOOLEAN : RequestOtpReply(h, ok)
    \/ \E h \in OtpIdInputs, o \in OtpInputs : VerifyOtpInvalid(h, o)
    \/ \E h \in OtpIdInputs, o \in OtpInputs : VerifyOtpDirect(h, o)

SpecMail == Init /\ [][NextMail]_vars

\* verify-otp requests waiting for their handlers at the same time
NextRace ==
    \/ \E e \in EmailInputs, ok \in BOOLEAN : RequestOtpServed(e, 0, ok, MaxRaceOtps)
    \/ \E c \in Clients, h \in OtpIdInputs, o \in GeneratedOtps : VerifyOtpArrive(c, h, o)
    \/ \E r \in inflight : VerifyOtp(r)

SpecRace == Init /\ [][NextRace]_vars

\* a login and the life of its session
NextSession ==
    \/ \E e \in EmailInputs, n \in RandomNumerators : RequestOtpServed(e, n, TRUE, MaxOtps)
    \/ \E h \in OtpIdInputs, o \in GeneratedOtps : VerifyOtpDirect(h, o)
    \/ \E c \in Credentials : Profile(c)
    \/ \E c \in Credentials : ListResumes(c)
    \/ \E d \in SessionTickDeltas : Tick(d)

SpecSession == Init /\ [][NextSession]_vars

\* the state after two users have logged in at time 0 (reached by
\* request-otp, request-otp, verify-otp, verify-otp)
InitResume ==
    LET a == <<"a", "@", "b", ".", "c", "o">>
        c == <<"c", "@", "b", ".", "c", "o">>
        ua == NewUser(a, UserUuid(1), 0)
        uc == NewUser(c, UserUuid(2), 0)
    IN  /\ otpStore = <<>>
        /\ userStore = (a :> ua) @@ (c :> uc)
        /\ otpCount = 2
        /\ pendingMail = {}
        /\ inflight = {}
        /\ now = 0
        /\ ticks = 0
        /\ tokens = {[jwt |-> JwtSign(ua.id, a, 0), signedAt |-> 0],
                     [jwt |-> JwtSign(uc.id, c, 0), signedAt |-> 0]}
        /\ blobs = <<>>
        /\ resumeCount = 0
        /\ resp = Idle
        /\ rawEmails = (OtpUuid(1) :> a) @@ (OtpUuid(2) :> c)
        /\ redeemed = (OtpUuid(1) :> [otp |-> generateOTP(0), n |-> 1, id |-> ua.id,
                                         expiresAt |-> OtpTtlMs])
                        @@ (OtpUuid(2) :> [otp |-> generateOTP(0), n |-> 1, id |-> uc.id,
                                            expiresAt |-> OtpTtlMs])
        /\ expiredIds = <<>>
        /\ userCount = 2
        /\ client = NoClient

\* the resume and AI routes of two logged-in users
NextResume ==
    \/ \E c \in Credentials, f \in Files :
          \E x \in ExtractionOutcomes(f) : UploadResume(c, f, x)
    \/ \E c \in Credentials : ListResumes(c)
    \/ \E c \in Credentials, r \in ResumeIdInputs : GetResume(c, r)
    \/ \E c \in Credentials, r \in ResumeIdInputs : DeleteResume(c, r)
    \/ \E c \in Credentials, b \in RequestBodies, ai \in 0..2 :
          CustomizeResume(c, b.resumeId, b.jobDescription, ai)
    \/ \E c \in Unforged, b \in RequestBodies, x \in BOOLEAN :
          AnalyzeSkills(c, b.resumeId, b.jobDescription, x)
    \/ \E c \in Unforged, b \in RequestBodies, x \in BOOLEAN :
          GenerateCoverLetter(c, b.resumeId, b.jobDescription, x)
    \/ \E d \in ResumeTickDeltas : Tick(d)

SpecResume == InitResume /\ [][NextResume]_vars

\* the resume routes alone
NextUpload ==
    \/ \E c \in Credentials, f \in Files :
          \E x \in ExtractionOutcomes(f) : UploadResume(c, f, x)
    \/ \E c \in Credentials : ListResumes(c)
    \/ \E c \in Credentials, r \in ResumeIdInputs : GetResume(c, r)
    \/ \E c \in Credentials, r \in ResumeIdInputs : DeleteResume(c, r)
    \/ \E d \in ResumeTickDeltas : Tick(d)

SpecUpload == InitResume /\ [][NextUpload]_vars

\* OTPs requested again and again while earlier ones are alive, with the clock
ReissueInputs ==
    { [email |-> <<"a", "@", "b", ".", "c", "o">>, n |-> 0],
      [email |-> <<"a", "@", "b", ".", "c", "o">>, n |-> RandomDenominator - 1],
      [email |-> <<"c", "@", "b", ".", "c", "o">>, n |-> 0] }

\* the first OTP of a process, for every value Math.random() can return
AllNumerators == 0..(RandomDenominator - 1)
StoredOtps == {otpStore[h].otp : h \in DOMAIN otpStore}

NextCodes ==
    \/ \E n \in AllNumerators :
          otpCount = 0 /\ RequestOtpServed(<<"a", "@", "b", ".", "c", "o">>, n, TRUE, MaxOtps)
    \/ \E h \in OtpIdInputs, o \in StoredOtps : VerifyOtpInvalid(h, o)
    \/ \E h \in OtpIdInputs, o \in StoredOtps \cup {<<"1", "2", "3", "4", "5">>} :
          VerifyOtpDirect(h, o)

SpecCodes == Init /\ [][NextCodes]_vars

NextReissue ==
    \/ \E i \in ReissueInputs : RequestOtpServed(i.email, i.n, TRUE, MaxRaceOtps)
    \/ \E h \in OtpIdInputs, o \in GeneratedOtps : VerifyOtpDirect(h, o)
    \/ \E d \in ReissueTickDeltas : Tick(d)

SpecReissue == Init /\ [][NextReissue]_vars

\* the OTP life cycle in a process started without JWT_SECRET
NextNoSecret ==
    \/ \E e \in EmailInputs : RequestOtpInvalid(e)
    \/ \E e \in EmailInputs, n \in RandomNumerators, ok \in BOOLEAN :
          RequestOtpServed(e, n, ok, MaxOtps)
    \/ \E h \in OtpIdInputs, o \in OtpInputs : VerifyOtpNoSecret(h, o)
    \/ \E d \in OtpTickDeltas : Tick(d)

SpecNoSecret == Init /\ [][NextNoSecret]_vars

\* sessions that outlive the process that issued them
NextRestart ==
    \/ \E e \in EmailInputs, n \in RandomNumerators : RequestOtpServed(e, n, TRUE, MaxOtps)
    \/ \E h \in OtpIdInputs, o \in GeneratedOtps : VerifyOtpDirect(h, o)
    \/ Restart
    \/ \E c \in Credentials : Profile(c)
    \/ \E c \in Credentials : ListResumes(c)
    \/ \E d \in SessionTickDeltas : Tick(d)

SpecRestart == Init /\ [][NextRestart]_vars

\* a browser that logs in and out, and the requests made with the tokens issued
NextClient ==
    \/ \E e \in EmailInputs : RequestOtpServed(e, 0, TRUE, MaxOtps)
    \/ \E h \in OtpIdInputs, o \in GeneratedOtps : VerifyOtpDirect(h, o)
    \/ VerifyOTPResolved
    \/ Logout
    \/ \E c \in Credentials : Profile(c)
    \/ \E c \in Credentials : ListResumes(c)
    \/ \E d \in SessionTickDeltas : Tick(d)

SpecClient == Init /\ [][NextClient]_vars

\* the Login page against the auth routes
NextWizard ==
    \/ \E e \in WizardEmails : SetEmail(e)
    \/ HandleEmailSubmit
    \/ Resend
    \/ \E o \in GeneratedOtps : SetOtp(o)
    \/ HandleOTPSubmit
    \/ HandleBackToEmail
    \/ \E emailSent \in BOOLEAN : WizardRequestServed(0, emailSent)
    \/ WizardVerifyServed
    \/ RequestOTPSettled
    \/ HandleOTPSettled

SpecWizard == Init /\ [][NextWizard]_vars

\* one browser: the Login page and the AuthProvider, with page loads, logouts
\* and the clock
NextBrowser ==
    \/ NextWizard
    \/ Mount
    \/ CheckAuthResolved
    \/ client.wizard.pending = "none" /\ Logout
    \/ \E d \in BrowserTickDeltas : client.wizard.pending = "none" /\ Tick(d)

SpecBrowser == Init /\ [][NextBrowser]_vars

\* ------------------------------------------------------------- properties
\* C1: a verify-otp that meets the record of its handle, not later than
\* expiresAt, with the stored code answers 200 and removes the record (the first
\* login of the handle); a verify-otp whose handle was redeemed before answers 400
\* with no token, whatever code it carries and whatever happened in between.
C1_SingleUse ==
    [][ (resp'.op = "verify-otp" /\ resp'.error # "validation") =>
          LET h == resp'.otpId
              o == resp'.otp
          IN  /\ (h \in DOMAIN otpStore /\ now <= otpStore[h].expiresAt
                    /\ o = otpStore[h].otp)
                 => /\ resp'.status = 200
                    /\ resp'.token # NoToken
                    /\ h \notin DOMAIN otpStore'
                    /\ h \notin DOMAIN redeemed /\ redeemed'[h].n = 1
              /\ h \in DOMAIN redeemed
                 => /\ resp'.status = 400
                    /\ resp'.token = NoToken
                    /\ h \notin DOMAIN otpStore
                    /\ UNCHANGED <<otpStore, userStore, tokens, redeemed>>
      ]_vars

\* a second verify-otp with the handle and the code of an earlier login was refused
C1_Witness ==
    /\ resp.op = "verify-otp"
    /\ resp.status = 400
    /\ resp.otpId \in DOMAIN redeemed
    /\ resp.otp = redeemed[resp.otpId].otp

\* C2: however the handlers of waiting verify-otp requests are ordered, no
\* handle is redeemed more than once: of the requests that carry the same handle
\* and the stored code at most one gets the 200 answer with a token.
C2_AtMostOneSuccess ==
    /\ \A h \in DOMAIN redeemed : redeemed[h].n <= 1 /\ h \notin DOMAIN otpStore
    /\ (resp.op = "verify-otp" /\ resp.otpId \in resp.with) => resp.status = 400

\* a request that waited while its own handle was redeemed, carrying the stored
\* code, was refused as an unknown handle
C2_Witness ==
    /\ resp.op = "verify-otp"
    /\ resp.otpId \in resp.with
    /\ resp.otpId \in DOMAIN redeemed
    /\ resp.otp = redeemed[resp.otpId].otp
    /\ resp.error = "Invalid OTP ID"

\* C3: a verify-otp that meets an unexpired record with another code (one that
\* passed the validators) answers 400 'Invalid OTP' and changes neither the OTP
\* store nor the users nor the tokens; and a verify-otp with the stored code that
\* directly follows such an answer for the same handle, not later than expiresAt,
\* answers 200.
C3_WrongCodeKeepsRecord ==
    [][ (resp'.op = "verify-otp" /\ resp'.error # "validation") =>
          LET h == resp'.otpId
              o == resp'.otp
              live == h \in DOMAIN otpStore /\ now <= otpStore[h].expiresAt
          IN  /\ (live /\ o # otpStore[h].otp)
                 => /\ resp'.status = 400
                    /\ resp'.error = "Invalid OTP"
                    /\ UNCHANGED <<otpStore, userStore, tokens, redeemed, expiredIds>>
              /\ (resp.error = "Invalid OTP" /\ resp.otpId = h /\ live
                    /\ o = otpStore[h].otp)
                 => resp'.status = 200 /\ resp'.user.email = otpStore[h].email
      ]_vars

\* after a clock step a wrong code was refused and the record is still alive
C3_Witness ==
    /\ resp.op = "verify-otp"
    /\ resp.error = "Invalid OTP"
    /\ ticks > 0
    /\ resp.otpId \in DOMAIN otpStore
    /\ now <= otpStore[resp.otpId].expiresAt
    /\ Len(resp.otp) = 6

\* C4: a verify-otp that meets a record with now > expiresAt answers 400 'OTP
\* expired' whether or not the code is the stored one, removes that record and
\* nothing else, creates no user and issues no token; a verify-otp for a handle
\* whose record was removed as expired answers 400 'Invalid OTP ID'.
C4_ExpiredIsDeleted ==
    [][ (resp'.op = "verify-otp" /\ resp'.error # "validation") =>
          LET h == resp'.otpId
          IN  /\ (h \in DOMAIN otpStore /\ now > otpStore[h].expiresAt)
                 => /\ resp'.status = 400
                    /\ resp'.error = "OTP expired"
                    /\ resp'.token = NoToken
                    /\ otpStore' = Remove(otpStore, h)
                    /\ UNCHANGED <<userStore, tokens, redeemed>>
              /\ h \in DOMAIN expiredIds
                 => /\ resp'.status = 400
                    /\ resp'.error = "Invalid OTP ID"
                    /\ UNCHANGED <<otpStore, userStore, tokens, redeemed>>
      ]_vars

\* the stored code was submitted for a handle whose record had been removed as expired
C4_Witness ==
    /\ resp.op = "verify-otp"
    /\ resp.error = "Invalid OTP ID"
    /\ resp.otpId \in DOMAIN expiredIds
    /\ resp.otp = expiredIds[resp.otpId]

\* C5: once request-otp has answered 500 'Failed to send OTP email', the OTP
\* store holds no record under the handle that request drew.
C5_FailedSendLeavesNoRecord ==
    (resp.op = "request-otp" /\ resp.status = 500) => resp.otpId \notin DOMAIN otpStore

\* C6: however the handlers of waiting verify-otp requests are ordered, all the
\* logins of one email carry the same user id, in the answer and in the token,
\* also when the first login of the email is among them; the user store holds one
\* record per email, under the email it carries, and no id is given to two emails.
C6_OneIdentityPerEmail ==
    /\ \A h1, h2 \in DOMAIN redeemed :
          NormalizeEmail(rawEmails[h1]) = NormalizeEmail(rawEmails[h2])
              => redeemed[h1].id = redeemed[h2].id
    /\ \A k1, k2 \in tokens : k1.jwt.email = k2.jwt.email => k1.jwt.userId = k2.jwt.userId
    /\ \A e \in DOMAIN userStore : userStore[e].email = e
    /\ \A e1, e2 \in DOMAIN userStore : userStore[e1].id = userStore[e2].id => e1 = e2
    /\ \A h \in DOMAIN redeemed :
          /\ NormalizeEmail(rawEmails[h]) \in DOMAIN userStore
          /\ userStore[NormalizeEmail(rawEmails[h])].id = redeemed[h].id
    /\ (resp.op = "verify-otp" /\ resp.status = 200)
          => /\ resp.user = userStore[resp.user.email]
             /\ resp.token.userId = resp.user.id
             /\ resp.user.id = redeemed[resp.otpId].id

\* a login succeeded after another handle of the same email had been redeemed
\* while the request waited for its handler
C6_Witness ==
    /\ resp.op = "verify-otp"
    /\ resp.status = 200
    /\ \E h \in resp.with :
          /\ h # resp.otpId
          /\ NormalizeEmail(rawEmails[h]) = resp.user.email
          /\ redeemed[h].id = resp.user.id

\* String.prototype.trim, for the blank
RECURSIVE Trim(_)
Trim(s) ==
    IF s = <<>> THEN s
    ELSE IF s[1] = " " THEN Trim(Tail(s))
    ELSE IF s[Len(s)] = " " THEN Trim(SubSeq(s, 1, Len(s) - 1))
    ELSE s

\* C7, as stated: an address is served under its trimmed and case-folded form,
\* so request-otp never refuses an address whose trimmed form is an email address.
C7_TrimmedAndFolded ==
    (resp.op = "request-otp" /\ IsEmail(Trim(resp.email))) => resp.status # 400

\* C7: addresses that differ only in letter case are one identity key: the
\* logins through them carry the same user id and one user record exists for
\* them; an address with a leading or trailing blank is refused by request-otp
\* with 400 and no OTP record is ever stored for it.
C7_CaseFolded ==
    /\ \A h1, h2 \in DOMAIN redeemed :
          ToLowerCase(rawEmails[h1]) = ToLowerCase(rawEmails[h2])
              => redeemed[h1].id = redeemed[h2].id
    /\ \A h \in DOMAIN redeemed :
          Cardinality({e \in DOMAIN userStore :
                         ToLowerCase(e) = ToLowerCase(rawEmails[h])}) = 1
    /\ \A k1, k2 \in tokens :
          ToLowerCase(k1.jwt.email) = ToLowerCase(k2.jwt.email)
              => k1.jwt.userId = k2.jwt.userId
    /\ \A h \in DOMAIN rawEmails : Trim(rawEmails[h]) = rawEmails[h]
    /\ (resp.op = "request-otp" /\ Trim(resp.email) # resp.email) => resp.status = 400

\* two addresses that differ in letter case have both logged in
C7_Witness ==
    \E h1, h2 \in DOMAIN redeemed :
        /\ rawEmails[h1] # rawEmails[h2]
        /\ ToLowerCase(rawEmails[h1]) = ToLowerCase(rawEmails[h2])

C9_TenantIsolation ==
    [][ (resp'.ops # <<>> \/ resp'.names # {} \/ blobs' # blobs) =>
          /\ resp'.cred.kind = "jwt"
          /\ LET r == resp'
                 prefix == UserPrefix(r.cred.userId)
                 owner(n) == IF n \in DOMAIN blobs THEN blobs[n].owner ELSE blobs'[n].owner
                 changed == {n \in DOMAIN blobs \cup DOMAIN blobs' :
                               \/ n \notin DOMAIN blobs
                               \/ n \notin DOMAIN blobs'
                               \/ blobs[n] # blobs'[n]}
             IN  /\ \A i \in 1..Len(r.ops) :
                       r.ops[i].kind # "ai" => StartsWith(r.ops[i].arg, prefix)
                 /\ \A n \in r.names \cup changed :
                       StartsWith(n, prefix) /\ owner(n) = r.cred.userId
      ]_vars

\* a user asked for the resume id of a blob stored by the other user and got 404
C9_Witness ==
    /\ resp.op \in {"get", "delete"}
    /\ resp.status = 404
    /\ resp.resumeId # <<"_">>
    /\ \E n \in DOMAIN blobs :
          Includes(n, resp.resumeId) /\ blobs[n].owner # resp.cred.userId

\* C10: a resume or AI request without a token, with a string that is no JWT,
\* with a token signed with another key or with an expired token is answered 401
\* or 403; it lists, downloads, uploads and deletes no blob, calls no chat
\* completion, and leaves the container as it was.
C10_RejectedBeforeLogic ==
    [][ LET c == resp'.cred
            bad == \/ c.kind # "jwt"
                   \/ c.key # JwtSecret
                   \/ (now \div 1000) >= c.exp
        IN  (resp'.op \in {"upload", "list", "get", "delete", "customize", "skills",
                           "cover-letter"} /\ bad)
            => /\ resp'.status \in {401, 403}
               /\ resp'.ops = <<>>
               /\ resp'.names = {}
               /\ UNCHANGED blobVars
      ]_vars

\* a delete with the owner's expired token was refused and the blob is still there
C10_Witness ==
    /\ resp.op = "delete"
    /\ resp.status = 403
    /\ resp.cred.kind = "jwt"
    /\ resp.cred.key = JwtSecret
    /\ Targets(blobs, resp.cred.userId, resp.resumeId) # {}

\* C11: on one endpoint the answer to a token that is no JWT, to a token signed
\* with another key and to an expired token is one and the same: status 401 and
\* 'Invalid token' on /profile, status 403 and 'Invalid token' on the resume
\* routes, with nothing else in the answer.
C11_UniformFailure ==
    LET c == resp.cred
        failed == \/ c.kind = "garbage"
                  \/ c.kind = "jwt" /\ c.key # JwtSecret
                  \/ c.kind = "jwt" /\ c.key = JwtSecret /\ (now \div 1000) >= c.exp
    IN  (resp.op \in {"profile", "list"} /\ failed) =>
            [resp EXCEPT !.cred = NoToken] =
                [Idle EXCEPT !.op = resp.op,
                             !.status = IF resp.op = "profile" THEN 401 ELSE 403,
                             !.error = "Invalid token"]

\* /profile has refused a token of this server that has expired
C11_Witness ==
    /\ resp.op = "profile"
    /\ resp.status = 401
    /\ resp.cred.kind = "jwt"
    /\ resp.cred.key = JwtSecret
    /\ (now \div 1000) >= resp.cred.exp

\* C12: a request-otp that is served stores its record under a handle never used
\* before and leaves every record already in the store as it is, also those of
\* the same email; a verify-otp leaves the records of all other handles as they
\* are; and a verify-otp on a live handle answers 200 exactly when it carries the
\* code of that handle's own record.
C12_IndependentHandles ==
    [][ /\ (resp'.op = "request-otp" /\ resp'.status = 200) =>
              /\ resp'.otpId \notin DOMAIN otpStore
              /\ resp'.otpId \notin DOMAIN rawEmails
              /\ resp'.otpId \in DOMAIN otpStore'
              /\ \A g \in DOMAIN otpStore :
                    g \in DOMAIN otpStore' /\ otpStore'[g] = otpStore[g]
        /\ (resp'.op = "verify-otp" /\ resp'.error # "validation") =>
              LET h == resp'.otpId IN
              /\ \A g \in DOMAIN otpStore \ {h} :
                    g \in DOMAIN otpStore' /\ otpStore'[g] = otpStore[g]
              /\ (h \in DOMAIN otpStore /\ now <= otpStore[h].expiresAt)
                    => (resp'.status = 200 <=> resp'.otp = otpStore[h].otp)
      ]_vars

\* a login through one handle, while another handle of the same email with
\* another code is alive in the store
C12_Witness ==
    /\ resp.op = "verify-otp"
    /\ resp.status = 200
    /\ \E g \in DOMAIN otpStore :
          /\ g # resp.otpId
          /\ otpStore[g].email = resp.user.email
          /\ otpStore[g].otp # resp.otp
          /\ now <= otpStore[g].expiresAt

\* C13: a step never changes the record of a handle that stays in the OTP store;
\* a handle that enters the store was never used before, enters alone, and its
\* record carries the normalized form of the address submitted for it.
C13_RecordsImmutable ==
    [][ LET old == DOMAIN otpStore
            new == DOMAIN otpStore'
        IN  /\ \A h \in old \cap new : otpStore'[h] = otpStore[h]
            /\ Cardinality(new \ old) <= 1
            /\ \A h \in new \ old :
                  /\ h \notin DOMAIN rawEmails
                  /\ h \notin DOMAIN redeemed \cup DOMAIN expiredIds
                  /\ otpStore'[h].email = NormalizeEmail(rawEmails'[h])
                  /\ otpStore'[h].otp \in GeneratedOtps
      ]_vars

\* two records are alive and a wrong code has just been refused for one of them
C13_Witness ==
    /\ Cardinality(DOMAIN otpStore) = 2
    /\ resp.op = "verify-otp"
    /\ resp.error = "Invalid OTP"
    /\ resp.otpId \in DOMAIN otpStore

\* C14: a step never removes or changes a user record; a record enters the user
\* store only in a verify-otp step that answers 200 for an email that had none,
\* alone, with an id no other record has and createdAt the time of that step;
\* every 200 of verify-otp returns the record stored for its email, which for a
\* known email is the record that was there before; no two emails share an id.
C14_IdentitiesStable ==
    [][ LET old == DOMAIN userStore
            new == DOMAIN userStore'
            login == resp'.op = "verify-otp" /\ resp'.status = 200
        IN  /\ \A e \in old : e \in new /\ userStore'[e] = userStore[e]
            /\ Cardinality(new \ old) <= 1
            /\ \A e \in new \ old :
                  /\ login
                  /\ resp'.user.email = e
                  /\ userStore'[e].email = e
                  /\ userStore'[e].createdAt = now
                  /\ \A f \in old : userStore[f].id # userStore'[e].id
            /\ login =>
                  /\ resp'.user.email \in new
                  /\ resp'.user = userStore'[resp'.user.email]
                  /\ resp'.token.userId = resp'.user.id
                  /\ resp'.user.email \in old => resp'.user = userStore[resp'.user.email]
            /\ \A e, f \in new : userStore'[e].id = userStore'[f].id => e = f
      ]_vars

\* a login at a later time than the one at which its user record was created
C14_Witness ==
    /\ resp.op = "verify-otp"
    /\ resp.status = 200
    /\ resp.user.createdAt < now
    /\ userStore[resp.user.email] = resp.user

\* C15: a verify-otp request gets past the validators, to the handler that
\* reads the OTP store, only with a handle that is not empty and a code of
\* exactly 6 decimal digits.
C15_OnlySixDigitsReachStore ==
    (resp.op = "verify-otp" /\ resp.error # "validation") =>
        /\ resp.otpId # <<>>
        /\ Len(resp.otp) = 6
        /\ \A i \in 1..Len(resp.otp) : resp.otp[i] \in Digits

\* C16: a step of verify-otp that creates a user record has removed the OTP
\* record it verified: no state holds a user created by a verification together
\* with the record that verification went through.
C16_RecordGoneWhenIdentityCreated ==
    [][ (resp'.op = "verify-otp" /\ userStore' # userStore)
            => resp'.otpId \notin DOMAIN otpStore' ]_vars

\* C17: the answer of an authenticated endpoint is fixed by the credential and
\* the time alone: a token that jwt.verify accepts at that time is answered 200
\* with the user id it carries, every other credential is refused, whatever the
\* user store and the OTP store hold.
C17_ResolutionFromCredentialOnly ==
    resp.op \in {"profile", "list"} =>
        IF JwtVerifies(resp.cred, now)
        THEN resp.status = 200 /\ resp.user.id = resp.cred.userId
        ELSE resp.status \in {401, 403}

\* C18: a logout changes the browser's state only: no store of the server, no
\* issued token and no blob changes; and a token the logout has discarded is
\* answered by /profile and by the resume routes as before, 200 with the user id
\* it carries, until the second it expires in, and refused from then on.
C18_LogoutRevokesNothing ==
    [][ /\ resp'.op = "logout" =>
              /\ UNCHANGED <<otpStore, userStore, tokens, blobs, otpCount, userCount,
                             resumeCount, redeemed, expiredIds>>
              /\ client'.token = NoToken
              /\ client'.header = NoToken
              /\ client'.user = NoUser
        /\ (resp'.op \in {"profile", "list"} /\ resp'.cred \in client.discarded) =>
              IF (now \div 1000) < resp'.cred.exp
              THEN /\ resp'.status = 200
                   /\ resp'.user.id = resp'.cred.userId
                   /\ resp'.user.id = userStore[resp'.cred.email].id
              ELSE resp'.status \in {401, 403}
      ]_vars

\* after the logout a resume route has accepted the token the logout discarded
C18_Witness ==
    /\ resp.op = "list"
    /\ resp.status = 200
    /\ resp.cred \in client.discarded
    /\ client.token = NoToken
    /\ client.user = NoUser

\* C19: the handler of verify-otp has one answer for its failures: two failed
\* verifications in a row, whatever their causes (unknown handle, expired
\* record, wrong code), are answered with the same status and the same error.
C19_OneGenericFailure ==
    [][ LET failed(r) == r.op = "verify-otp" /\ r.status = 400 /\ r.error # "validation"
        IN  (failed(resp) /\ failed(resp'))
                => resp'.status = resp.status /\ resp'.error = resp.error ]_vars

\* C20: the record a request-otp stores at time t has expiresAt = t + 600000 ms;
\* a verify-otp with the stored code of a record in the store answers 200 when
\* now <= expiresAt, also at now = expiresAt, and 400 'OTP expired' when
\* now > expiresAt.
C20_TenMinutesInclusive ==
    [][ /\ (resp'.op = "request-otp" /\ resp'.status = 200) =>
              otpStore'[resp'.otpId].expiresAt = now + 600000
        /\ (resp'.op = "verify-otp" /\ resp'.error # "validation") =>
              LET h == resp'.otpId IN
              (h \in DOMAIN otpStore /\ resp'.otp = otpStore[h].otp) =>
                  IF now <= otpStore[h].expiresAt
                  THEN resp'.status = 200
                  ELSE resp'.status = 400 /\ resp'.error = "OTP expired"
      ]_vars

\* a login at the very millisecond its record expires at, 10 minutes after the request
C20_Witness ==
    /\ resp.op = "verify-otp"
    /\ resp.status = 200
    /\ redeemed[resp.otpId].expiresAt = now
    /\ now >= 600000

\* C21: every code request-otp stores is a string of exactly 6 decimal digits,
\* the first of them not 0, whatever value the random source returned; it passes
\* the validators of verify-otp, and a verify-otp with it on its live handle
\* answers 200.
C21_SixDigitCodes ==
    [][ /\ \A h \in DOMAIN otpStore' :
              LET otp == otpStore'[h].otp IN
              /\ Len(otp) = 6
              /\ \A i \in 1..Len(otp) : otp[i] \in Digits
              /\ otp[1] # "0"
              /\ IsOtpFormat(otp)
        /\ (resp'.op = "verify-otp" /\ resp'.otpId \in DOMAIN otpStore
              /\ resp'.otp = otpStore[resp'.otpId].otp)
            => resp'.status = 200
      ]_vars

\* a login with a code that came from a value of the random source other than
\* its least and its greatest
C21_Witness ==
    /\ resp.op = "verify-otp"
    /\ resp.status = 200
    /\ resp.otp \notin GeneratedOtps
    /\ resp.otp = redeemed[resp.otpId].otp

\* C22: only PDF and DOCX files of at most 10 MB are stored.  An upload whose
\* MIME type is neither application/pdf nor the DOCX type, or whose size
\* exceeds 10 MB, is answered with an error and leaves the set of blobs
\* unchanged; a blob written by an upload is a PDF or a DOCX of at most 10 MB.
C22_OnlyPdfDocxStored ==
    [][resp'.op = "upload" =>
         /\ (resp'.file.mimetype \notin {Pdf, Docx} \/ resp'.file.size > MaxFileSize)
               => (resp'.status >= 400 /\ blobs' = blobs)
         /\ \A b \in DOMAIN blobs' \ DOMAIN blobs :
               /\ blobs'[b].contentType \in {Pdf, Docx}
               /\ blobs'[b].size <= MaxFileSize
               /\ blobs'[b].contentType = resp'.file.mimetype]_vars

\* a file of exactly 10 MB is stored, and a larger PDF sent by the same
\* authenticated user is refused
C22_Witness ==
    /\ resp.op = "upload" /\ resp.status = 500 /\ resp.error = "multer"
    /\ resp.file.mimetype = Pdf /\ resp.file.size > MaxFileSize
    /\ \E b \in DOMAIN blobs : blobs[b].size = MaxFileSize

\* C23: frame of a failed verify-otp.  One that ends with 'Invalid OTP ID' or
\* 'Invalid OTP' leaves the OTP store and the user store as they were; one that
\* ends with 'OTP expired' removes that one record from the OTP store and
\* nothing else; no failing verify-otp creates or changes a user, and a failing
\* step has committed at most one store mutation.
C23_FailedVerifyFrame ==
    [][ (resp'.op = "verify-otp" /\ resp'.status >= 400) =>
          /\ resp'.error \in {"Invalid OTP ID", "Invalid OTP"}
                => (otpStore' = otpStore /\ userStore' = userStore)
          /\ resp'.error = "OTP expired"
                => (otpStore' = Remove(otpStore, resp'.otpId) /\ userStore' = userStore)
          /\ userStore' = userStore
          /\ otpStore' = otpStore \/ userStore' = userStore
      ]_vars

\* C24: an authenticated DELETE /:resumeId removes exactly one blob of the
\* requesting user whose resume id, the part of its name between '<userId>/'
\* and the first '_', equals resumeId, and leaves every other blob as it was;
\* when the user has no blob with that id it answers 404 and removes nothing.
C24_DeleteByResumeId ==
    [][ (resp'.op = "delete" /\ resp'.status \in {200, 404}) =>
          LET mine == {n \in ListBlobsFlat(blobs, UserPrefix(resp'.cred.userId)) :
                         EntryId(n) = resp'.resumeId}
          IN  IF mine = {}
              THEN resp'.status = 404 /\ blobs' = blobs
              ELSE resp'.status = 200 /\ \E n \in mine : blobs' = Remove(blobs, n)
      ]_vars

\* C25: upload/list round trip.  A blob stored by an upload of user U with
\* resume id R and file name N (underscores allowed) shows in U's list as
\* exactly one entry with id R, and that entry has fileName N; an upload draws
\* an id and a blob name no stored blob has, and overwrites nothing.
C25_UploadListRoundTrip ==
    [][ /\ (resp'.op = "list" /\ resp'.status = 200) =>
              \A b \in DOMAIN blobs' :
                  blobs'[b].owner = resp'.cred.userId =>
                      /\ Cardinality({e \in resp'.resumes : e.id = blobs'[b].resumeId}) = 1
                      /\ \A e \in resp'.resumes :
                            e.id = blobs'[b].resumeId =>
                                e.fileName = blobs'[b].originalname /\ e.blobName = b
        /\ (resp'.op = "upload" /\ resp'.status = 200) =>
              /\ resp'.names \cap DOMAIN blobs = {}
              /\ \A b \in DOMAIN blobs : blobs[b].resumeId # resp'.resumeId
              /\ \A b \in DOMAIN blobs : b \in DOMAIN blobs' /\ blobs'[b] = blobs[b]
              /\ \A b \in resp'.names :
                    /\ b \in DOMAIN blobs'
                    /\ blobs'[b].resumeId = resp'.resumeId
                    /\ blobs'[b].originalname = resp'.file.originalname
      ]_vars

\* a user who uploaded the file c_v twice lists two entries named c_v
C25_Witness ==
    /\ resp.op = "list" /\ resp.status = 200
    /\ Cardinality({e \in resp.resumes : e.fileName = <<"c", "_", "v">>}) = 2
    /\ \A e \in resp.resumes :
          \E b \in DOMAIN blobs : blobs[b].resumeId = e.id /\ blobs[b].owner = resp.cred.userId

\* C26: an upload that is answered with an error leaves the blob store as it
\* was; after a 500 'Failed to upload resume' no blob of that upload is stored.
C26_FailedUploadStoresNothing ==
    [][ (resp'.op = "upload" /\ resp'.status >= 400) => blobs' = blobs ]_vars

\* C27: customize-resume writes the customized blob only after the resume
\* lookup and both chat completions, in that order.  A request whose
\* validation fails, whose resume is not found or one of whose completions
\* fails is answered with an error and writes no blob; a successful one adds
\* exactly one blob, under the requester's prefix, whose id is the
\* customizedResumeId of the response.
C27_CustomizedSavedLast ==
    [][ resp'.op = "customize" =>
          LET r == resp'
              userId == r.cred.userId
              kinds == [i \in 1..Len(r.ops) |-> r.ops[i].kind]
              added == DOMAIN blobs' \ DOMAIN blobs
          IN  /\ \A b \in DOMAIN blobs : b \in DOMAIN blobs' /\ blobs'[b] = blobs[b]
              /\ IF r.status = 200
                 THEN /\ kinds = <<"list", "download", "ai", "ai", "upload">>
                      /\ r.ops[2].arg \in Targets(blobs, userId, r.resumeId)
                      /\ r.jobDescription >= MinJobDescription
                      /\ added = {r.ops[5].arg}
                      /\ \A b \in added :
                            /\ StartsWith(b, UserPrefix(userId))
                            /\ EntryId(b) = r.customizedResumeId
                            /\ blobs'[b].owner = userId
                 ELSE /\ added = {}
                      /\ \A i \in 1..Len(r.ops) : r.ops[i].kind # "upload"
              /\ (r.status \notin {401, 403} /\ r.jobDescription < MinJobDescription)
                    => r.status = 400
              /\ (r.status \notin {400, 401, 403}
                    /\ Targets(blobs, userId, r.resumeId) = {}) => r.status = 500
              /\ r.status \in {200, 400, 401, 403, 500}
      ]_vars

\* a customization succeeded for a user who had uploaded one resume
C27_Witness ==
    /\ resp.op = "customize" /\ resp.status = 200
    /\ \E b \in DOMAIN blobs :
          /\ EntryId(b) = resp.customizedResumeId
          /\ blobs[b].contentType = "text/plain"
          /\ blobs[b].owner = resp.cred.userId
    /\ \E b \in DOMAIN blobs : blobs[b].contentType = Pdf /\ b \in resp.names

\* C28: the Login page enters step 'otp' only when a requestOTP has succeeded;
\* in step 'otp' the otpId it holds is the handle the most recent successful
\* requestOTP (first request or resend) has returned, a handle the server has
\* issued; a request or resend that fails changes neither step nor otpId; and
\* Back leads to step 'email' with otp and otpId empty.  (A page load starts
\* the page anew.)
C28_WizardHoldsLatestHandle ==
    [][ LET w == client.wizard
            v == client'.wizard
            settled == w.pending \in {"request", "resend"} /\ v.pending = "none"
        IN  v = NoWizard \/
            /\ (w.step = "email" /\ v.step = "otp") =>
                  /\ settled /\ w.pending = "request"
                  /\ resp.op = "request-otp" /\ resp.status = 200
                  /\ v.otpId = resp.otpId
            /\ v.latest = IF settled /\ resp.status = 200 THEN resp.otpId ELSE w.latest
            /\ v.step = "otp" =>
                  /\ v.otpId = v.latest
                  /\ v.otpId \in DOMAIN rawEmails'
            /\ (settled /\ resp.status # 200) => (v.step = w.step /\ v.otpId = w.otpId)
            /\ (w.step = "otp" /\ v.step = "email") => (v.otp = <<>> /\ v.otpId = <<>>)
      ]_vars

\* after a failed resend and a successful one the page holds the second handle
\* the server has issued to it, the first having been shown before
C28_Witness ==
    /\ client.wizard.step = "otp"
    /\ ~client.wizard.loading
    /\ otpCount >= 2
    /\ client.wizard.otpId = OtpUuid(otpCount)
    /\ \E h \in DOMAIN otpStore : h # client.wizard.otpId

\* C29: in the AuthProvider, whenever user is non-null a token is stored in
\* localStorage and the same token is the axios Authorization header, and a
\* logout leaves user null with neither set; in every interleaving of
\* checkAuth with verifyOTP and logout.
C29_ClientAuthConsistent ==
    [][ /\ client'.user # NoUser =>
              (client'.token # NoToken /\ client'.header = client'.token)
        /\ (resp'.op = "logout" /\ resp' # resp) =>
              (client'.user = NoUser /\ client'.token = NoToken
                 /\ client'.header = NoToken)
      ]_vars

====
